---- MODULE Spec2Model ----
(***************************************************************************)
(* Model of the VitalsOverview component                                   *)
(* (packages/esm-patient-vitals-app/src/vitals/vitals-overview.component). *)
(*                                                                         *)
(* The component is a React function component.  Its state is the two      *)
(* useState cells (chartView, isPrinting), the useRef cell                 *)
(* onBeforeGetContentResolve, the data delivered by the                    *)
(* useVitalsAndBiometrics hook, and the memoised tableRows.  Every handler *)
(* is one action; the re-render a handler causes (useMemo recomputation,   *)
(* the in-render call of getSortedBP) is part of that action.  The passive *)
(* effect useEffect([isPrinting]) is scheduled by a render that changed    *)
(* isPrinting and runs later as its own step.                              *)
(***************************************************************************)
EXTENDS Integers, Sequences, FiniteSets, TLC

\* ---------------------------------------------------------------- bounds
MaxRecords == 2
MaxPrints == 2
MaxVal == 2
MaxPageSize == 2

\* An optional field that was not recorded (undefined in the source).
Absent == -1

VARIABLES
    mounted,                    \* the component instance is mounted
    patient,                    \* the patient prop is present
    showPrintButtonConfig,      \* config.vitals.showPrintButton
    pageSize,                   \* the pageSize prop
    chartView,                  \* useState(false), line 39
    isPrinting,                 \* useState(false), line 41
    isLoading, error, isValidating,   \* useVitalsAndBiometrics, line 46
    vitals,                     \* data of useVitalsAndBiometrics (one array object)
    tableRows,                  \* useMemo(..., [vitals]), line 132
    onBeforeGetContentResolve,  \* useRef(null), line 153: 0 or a promise id
    promise,                    \* the promises made by onBeforeGetContent
    nPrints,                    \* number of handlePrint calls so far
    effectPending,              \* useEffect([isPrinting]) is scheduled
    captures,                   \* number of documents handed to the printer
    snapshot,                   \* the rows of the last document handed over
    currentPage,                \* page cursor of the paginated table
    pureOp,                     \* which pure function was applied, if any
    sortKey, rowA, rowB, cmp,   \* a comparator application
    normIn, normOut             \* a normalisation of one record

vars == <<mounted, patient, showPrintButtonConfig, pageSize, chartView, isPrinting,
          isLoading, error, isValidating, vitals, tableRows,
          onBeforeGetContentResolve, promise, nPrints, effectPending, captures,
          snapshot, currentPage, pureOp, sortKey, rowA, rowB, cmp, normIn, normOut>>

uiVars == <<mounted, patient, showPrintButtonConfig, pageSize, chartView, isPrinting,
            isLoading, error, isValidating, vitals, tableRows,
            onBeforeGetContentResolve, promise, nPrints, effectPending, captures,
            snapshot, currentPage>>

pureVars == <<pureOp, sortKey, rowA, rowB, cmp, normIn, normOut>>

\* ------------------------------------------------------- JavaScript values
Vals == {Absent} \cup (0 .. MaxVal)

\* x && ... : undefined and 0 are both falsy.
Truthy(v) == v # Absent /\ v # 0

\* x ?? y : only undefined/null is replaced.
Nullish(v) == v = Absent

\* Variant of OrPlaceholder written with || instead of ??.
OrPlaceholder_Truthy(v) == IF Truthy(v) THEN ToString(v) ELSE "--"

\* `${v ?? '--'}` and the text shown for  v ?? '--', lines 138-146.
OrPlaceholder(v) == IF Nullish(v) THEN "--" ELSE ToString(v)

\* formatDate(parseDate(date.toString()), {mode: 'wide', time: true})
FormatDate(d) == "D" \o ToString(d)

\* ------------------------------------------------------------- records
MkRecord(i, d, t, s, di, p, rr, o) ==
    [id |-> i, date |-> d, temperature |-> t, systolic |-> s, diastolic |-> di,
     pulse |-> p, respiratoryRate |-> rr, spo2 |-> o]

\* The records the data hook can deliver: distinct ids, increasing dates,
\* fields absent, zero and positive.
Record(i) ==
    MkRecord(i, i,
             IF i % 2 = 0 THEN Absent ELSE i % (MaxVal + 1),
             i % (MaxVal + 1),
             IF i = 1 THEN Absent ELSE (i + 1) % (MaxVal + 1),
             (i - 1) % (MaxVal + 1),
             Absent,
             i % (MaxVal + 1))

IdSeqs == UNION {{s \in [1 .. n -> 1 .. MaxRecords] :
                    \A i, j \in 1 .. n : i # j => s[i] # s[j]} : n \in 0 .. MaxRecords}

Deliveries == {[k \in DOMAIN s |-> Record(s[k])] : s \in IdSeqs}

\* ----------------------------------------------------- Record Normalizer
\* The body of vitals.map(...) in tableRows, lines 134-149.
NormalizeRecord(v) ==
    [id |-> v.id, date |-> v.date, temperature |-> v.temperature,
     systolic |-> v.systolic, diastolic |-> v.diastolic, pulse |-> v.pulse,
     respiratoryRate |-> v.respiratoryRate, spo2 |-> v.spo2,
     dateRender |-> FormatDate(v.date),
     bloodPressureRender |-> OrPlaceholder(v.systolic) \o " / " \o OrPlaceholder(v.diastolic),
     pulseRender |-> OrPlaceholder(v.pulse),
     spo2Render |-> OrPlaceholder(v.spo2),
     temperatureRender |-> OrPlaceholder(v.temperature),
     respiratoryRateRender |-> OrPlaceholder(v.respiratoryRate)]

MapRows(vs) == [k \in DOMAIN vs |-> NormalizeRecord(vs[k])]

\* ---------------------------------------------------------- Column Model
SingleColumns == {"temperatureRender", "pulseRender", "respiratoryRateRender", "spo2Render"}
Columns == {"dateRender", "bloodPressureRender"} \cup SingleColumns

FieldOf(key) ==
    CASE key = "temperatureRender" -> "temperature"
      [] key = "pulseRender" -> "pulse"
      [] key = "respiratoryRateRender" -> "respiratoryRate"
      [] key = "spo2Render" -> "spo2"

\* tableHeaders[key].sortFunc, lines 80-130.
SortFunc(key, a, b) ==
    CASE key = "dateRender" -> a.date - b.date
      [] key = "bloodPressureRender" ->
            IF Truthy(a.systolic) /\ Truthy(b.systolic)
               /\ Truthy(a.diastolic) /\ Truthy(b.diastolic)
            THEN IF a.systolic # b.systolic
                 THEN a.systolic - b.systolic
                 ELSE a.diastolic - b.diastolic
            ELSE 0
      [] OTHER ->
            IF Truthy(a[FieldOf(key)]) /\ Truthy(b[FieldOf(key)])
            THEN a[FieldOf(key)] - b[FieldOf(key)]
            ELSE 0

\* ------------------------------------------------------------ getSortedBP
\* Array.prototype.sort is stable and sorts the array in place.
InsertByDateDesc(x, s) ==
    LET n == Cardinality({k \in DOMAIN s : s[k].date >= x.date})
    IN  SubSeq(s, 1, n) \o <<x>> \o SubSeq(s, n + 1, Len(s))

RECURSIVE SortByDateDesc(_)
SortByDateDesc(s) ==
    IF s = <<>> THEN <<>>
    ELSE InsertByDateDesc(s[Len(s)], SortByDateDesc(SubSeq(s, 1, Len(s) - 1)))

\* ------------------------------------------------------------- rendering
\* The branch of the render that shows the widget card, lines 204-212.
Visible == ~isLoading /\ ~error /\ Len(vitals) > 0

\* Variant of ShowPrintButton that forgets the view mode.
ShowPrintButton_AnyView == showPrintButtonConfig

\* showPrintButton, line 48.
ShowPrintButton == showPrintButtonConfig /\ ~chartView

\* getSortedBP() is called by the render of the widget card (line 273); its
\* vitals.sort(...) reorders the hook's array itself.
AfterRender(v, loading, err) ==
    IF ~loading /\ ~err /\ Len(v) > 0 THEN SortByDateDesc(v) ELSE v

\* The rows PaginatedVitals shows: every row while printing, else the window
\* of the current page (an empty window beyond the last page).
PaginatedVitals(printing, size, page, rows) ==
    IF printing THEN rows
    ELSE LET first == (page - 1) * size + 1
             last == IF page * size < Len(rows) THEN page * size ELSE Len(rows)
         IN  IF first > last THEN <<>> ELSE SubSeq(rows, first, last)

PageCount == IF Len(tableRows) = 0 THEN 1 ELSE (Len(tableRows) + pageSize - 1) \div pageSize

\* The node under contentToPrintRef exists only in the table branch, lines 258-272.
ContentMounted == mounted /\ Visible /\ ~chartView

\* Variant of ContentToPrint that does not pass isPrinting on.
ContentToPrint_Paged == PaginatedVitals(FALSE, pageSize, currentPage, tableRows)

\* The rows under contentToPrintRef: PaginatedVitals is given isPrinting,
\* pageSize and tableRows, lines 261-271.
ContentToPrint == PaginatedVitals(isPrinting, pageSize, currentPage, tableRows)

\* ---------------------------------------------------------------- Init
BlankRecord == MkRecord(0, 1, Absent, Absent, Absent, Absent, Absent, Absent)

Init ==
    /\ mounted = TRUE
    /\ patient \in BOOLEAN
    /\ showPrintButtonConfig \in BOOLEAN
    /\ pageSize \in 1 .. MaxPageSize
    /\ chartView = FALSE
    /\ isPrinting = FALSE
    /\ isLoading = TRUE
    /\ error = FALSE
    /\ isValidating = FALSE
    /\ vitals = <<>>
    /\ tableRows = <<>>
    /\ onBeforeGetContentResolve = 0
    /\ promise = [p \in 1 .. MaxPrints |-> "unused"]
    /\ nPrints = 0
    /\ effectPending = TRUE
    /\ captures = 0
    /\ snapshot = <<>>
    /\ currentPage = 1
    /\ pureOp = "init"
    /\ sortKey = "none"
    /\ rowA = NormalizeRecord(BlankRecord)
    /\ rowB = NormalizeRecord(BlankRecord)
    /\ cmp = 0
    /\ normIn = BlankRecord
    /\ normOut = NormalizeRecord(BlankRecord)

\* ------------------------------------------------------------ data hook
printVars == <<onBeforeGetContentResolve, promise, nPrints, effectPending, captures, snapshot>>

\* useVitalsAndBiometrics resolves the first fetch with data.
LoadSuccess(data) ==
    /\ mounted /\ isLoading
    /\ isLoading' = FALSE
    /\ tableRows' = MapRows(data)
    /\ vitals' = AfterRender(data, FALSE, error)
    /\ UNCHANGED <<mounted, patient, showPrintButtonConfig, pageSize, chartView,
                   isPrinting, error, isValidating, currentPage>>
    /\ UNCHANGED printVars
    /\ UNCHANGED pureVars

LoadError ==
    /\ mounted /\ isLoading
    /\ isLoading' = FALSE
    /\ error' = TRUE
    /\ UNCHANGED <<mounted, patient, showPrintButtonConfig, pageSize, chartView,
                   isPrinting, isValidating, vitals, tableRows, currentPage>>
    /\ UNCHANGED printVars
    /\ UNCHANGED pureVars

\* A background revalidation starts: isValidating turns true.
RevalidateStart ==
    /\ mounted /\ ~isLoading /\ ~isValidating
    /\ isValidating' = TRUE
    /\ UNCHANGED <<mounted, patient, showPrintButtonConfig, pageSize, chartView,
                   isPrinting, isLoading, error, vitals, tableRows, currentPage>>
    /\ UNCHANGED printVars
    /\ UNCHANGED pureVars

\* Variant of RevalidateDone that resets the view state, as a remount would.
RevalidateDone_ResetView(data) ==
    /\ mounted /\ isValidating
    /\ isValidating' = FALSE
    /\ error' = FALSE
    /\ tableRows' = MapRows(data)
    /\ vitals' = AfterRender(data, isLoading, FALSE)
    /\ chartView' = FALSE
    /\ isPrinting' = FALSE
    /\ UNCHANGED <<mounted, patient, showPrintButtonConfig, pageSize, isLoading, currentPage>>
    /\ UNCHANGED printVars
    /\ UNCHANGED pureVars

\* The revalidation delivers a new array: tableRows is recomputed (its
\* dependency changed), then the render calls getSortedBP.
RevalidateDone(data) ==
    /\ mounted /\ isValidating
    /\ isValidating' = FALSE
    /\ error' = FALSE
    /\ tableRows' = MapRows(data)
    /\ vitals' = AfterRender(data, isLoading, FALSE)
    /\ UNCHANGED <<mounted, patient, showPrintButtonConfig, pageSize, chartView,
                   isPrinting, isLoading, currentPage>>
    /\ UNCHANGED printVars
    /\ UNCHANGED pureVars

\* The revalidation finds the data unchanged: the same array is kept.
RevalidateSame ==
    /\ mounted /\ isValidating /\ ~error
    /\ isValidating' = FALSE
    /\ UNCHANGED <<mounted, patient, showPrintButtonConfig, pageSize, chartView,
                   isPrinting, isLoading, error, vitals, tableRows, currentPage>>
    /\ UNCHANGED printVars
    /\ UNCHANGED pureVars

RevalidateError ==
    /\ mounted /\ isValidating
    /\ isValidating' = FALSE
    /\ error' = TRUE
    /\ UNCHANGED <<mounted, patient, showPrintButtonConfig, pageSize, chartView,
                   isPrinting, isLoading, vitals, tableRows, currentPage>>
    /\ UNCHANGED printVars
    /\ UNCHANGED pureVars

\* ------------------------------------------------------------ view mode
\* ContentSwitcher onChange, lines 220-233.
ToggleView(name) ==
    /\ mounted /\ Visible
    /\ chartView' = (name = "chartView")
    /\ UNCHANGED <<mounted, patient, showPrintButtonConfig, pageSize, isPrinting,
                   isLoading, error, isValidating, vitals, tableRows, currentPage>>
    /\ UNCHANGED printVars
    /\ UNCHANGED pureVars

\* The pagination control of the table.
GoToPage(n) ==
    /\ mounted /\ Visible /\ ~chartView
    /\ n \in 1 .. PageCount
    /\ currentPage' = n
    /\ UNCHANGED <<mounted, patient, showPrintButtonConfig, pageSize, chartView,
                   isPrinting, isLoading, error, isValidating, vitals, tableRows>>
    /\ UNCHANGED printVars
    /\ UNCHANGED pureVars

\* ---------------------------------------------------------- print cycle
\* The print cycle as the component sees it.
AwaitingContent ==
    /\ onBeforeGetContentResolve # 0
    /\ promise[onBeforeGetContentResolve] = "pending"

Capturing == \E p \in 1 .. MaxPrints : promise[p] = "printing"

InFlight == AwaitingContent \/ Capturing

\* Promises whose resolve callback has been invoked.
Resolved == {p \in 1 .. MaxPrints : promise[p] \in {"printing", "aborted", "done"}}

\* handlePrint (the Print button, line 242): react-to-print calls
\* onBeforeGetContent (lines 164-170) and waits for the promise it returns.
HandlePrint ==
    /\ mounted /\ Visible /\ ShowPrintButton
    /\ nPrints < MaxPrints
    /\ nPrints' = nPrints + 1
    /\ promise' = [promise EXCEPT ![nPrints + 1] = "pending"]
    /\ IF patient
       THEN /\ onBeforeGetContentResolve' = nPrints + 1
            /\ isPrinting' = TRUE
            /\ effectPending' = (effectPending \/ ~isPrinting)
       ELSE UNCHANGED <<onBeforeGetContentResolve, isPrinting, effectPending>>
    /\ UNCHANGED <<mounted, patient, showPrintButtonConfig, pageSize, chartView,
                   isLoading, error, isValidating, vitals, tableRows, currentPage,
                   captures, snapshot>>
    /\ UNCHANGED pureVars

\* What the body of the effect (lines 156-158) does to the promises: it
\* calls the stored resolve; react-to-print then takes the content node, or
\* gives up when there is none.
EffectBody(contentMounted) ==
    IF isPrinting /\ onBeforeGetContentResolve # 0
       /\ promise[onBeforeGetContentResolve] = "pending"
    THEN IF contentMounted
         THEN /\ promise' = [promise EXCEPT ![onBeforeGetContentResolve] = "printing"]
              /\ snapshot' = ContentToPrint
              /\ captures' = captures + 1
         ELSE /\ promise' = [promise EXCEPT ![onBeforeGetContentResolve] = "aborted"]
              /\ UNCHANGED <<snapshot, captures>>
    ELSE UNCHANGED <<promise, snapshot, captures>>

\* useEffect(..., [isPrinting]), lines 155-159, run by the scheduler.
RunEffect ==
    /\ effectPending
    /\ effectPending' = FALSE
    /\ EffectBody(ContentMounted)
    /\ UNCHANGED <<mounted, patient, showPrintButtonConfig, pageSize, chartView,
                   isPrinting, isLoading, error, isValidating, vitals, tableRows,
                   onBeforeGetContentResolve, nPrints, currentPage>>
    /\ UNCHANGED pureVars

\* The print ends and react-to-print calls onAfterPrint, lines 171-174; the
\* printed document is done with.  After teardown the setter has no effect.
AfterPrint(p) ==
    /\ promise[p] = "printing"
    /\ promise' = [promise EXCEPT ![p] = "done"]
    /\ onBeforeGetContentResolve' = 0
    /\ isPrinting' = (IF mounted THEN FALSE ELSE isPrinting)
    /\ effectPending' = (IF mounted /\ isPrinting THEN TRUE ELSE effectPending)
    /\ snapshot' = <<>>
    /\ UNCHANGED <<mounted, patient, showPrintButtonConfig, pageSize, chartView,
                   isLoading, error, isValidating, vitals, tableRows, nPrints,
                   captures, currentPage>>
    /\ UNCHANGED pureVars

\* Variant of Unmount that leaves a scheduled effect to run later.
Unmount_KeepEffect ==
    /\ mounted
    /\ mounted' = FALSE
    /\ UNCHANGED <<patient, showPrintButtonConfig, pageSize, chartView, isPrinting,
                   isLoading, error, isValidating, vitals, tableRows,
                   onBeforeGetContentResolve, promise, nPrints, effectPending,
                   captures, snapshot, currentPage>>
    /\ UNCHANGED pureVars

\* The component is removed.  The effect declares no cleanup (lines 155-159);
\* a scheduled effect is run before the removal, and once the component is
\* removed its content node is gone and no effect of it runs again.
Unmount ==
    /\ mounted
    /\ mounted' = FALSE
    /\ effectPending' = FALSE
    /\ IF effectPending THEN EffectBody(FALSE) ELSE UNCHANGED <<promise, snapshot, captures>>
    /\ UNCHANGED <<patient, showPrintButtonConfig, pageSize, chartView, isPrinting,
                   isLoading, error, isValidating, vitals, tableRows,
                   onBeforeGetContentResolve, nPrints, currentPage>>
    /\ UNCHANGED pureVars

\* ------------------------------------------------------- specifications
Next ==
    \/ \E data \in Deliveries : LoadSuccess(data)
    \/ LoadError
    \/ RevalidateStart
    \/ \E data \in Deliveries : RevalidateDone(data)
    \/ RevalidateSame
    \/ RevalidateError
    \/ \E name \in {"tableView", "chartView"} : ToggleView(name)
    \/ \E n \in 1 .. MaxRecords : GoToPage(n)
    \/ HandlePrint
    \/ RunEffect
    \/ \E p \in 1 .. MaxPrints : AfterPrint(p)
    \/ Unmount

Spec == Init /\ [][Next]_vars

\* The scheduler runs a scheduled effect, and a print that was started ends
\* (the dialog is confirmed or cancelled).
FairSpec ==
    /\ Spec
    /\ WF_vars(RunEffect)
    /\ WF_vars(\E p \in 1 .. MaxPrints : AfterPrint(p))

\* ------------------------------------------- comparators and normaliser
SortInputs(key) ==
    CASE key = "dateRender" ->
            {NormalizeRecord([BlankRecord EXCEPT !.date = d]) : d \in 1 .. MaxVal + 1}
      [] key = "bloodPressureRender" ->
            {NormalizeRecord([BlankRecord EXCEPT !.systolic = s, !.diastolic = d]) :
                s \in Vals, d \in Vals}
      [] OTHER ->
            {NormalizeRecord([BlankRecord EXCEPT ![FieldOf(key)] = v]) : v \in Vals}

\* The table sorts by a column: its sortFunc is applied to two rows.
ApplySortFunc(key, a, b) ==
    /\ pureOp = "init"
    /\ sortKey' = key
    /\ rowA' = a
    /\ rowB' = b
    /\ cmp' = SortFunc(key, a, b)
    /\ pureOp' = "sort"
    /\ UNCHANGED <<normIn, normOut>>
    /\ UNCHANGED uiVars

RecordInputs ==
    {MkRecord(0, 1, t, s, d, p, rr, o) :
        t \in Vals, s \in Vals, d \in Vals, p \in Vals, rr \in Vals, o \in Vals}

\* One record goes through the normaliser.
Normalize(r) ==
    /\ pureOp = "init"
    /\ normIn' = r
    /\ normOut' = NormalizeRecord(r)
    /\ pureOp' = "normalize"
    /\ UNCHANGED <<sortKey, rowA, rowB, cmp>>
    /\ UNCHANGED uiVars

PureNext ==
    \/ /\ pureOp = "init"
       /\ \E key \in Columns : \E a \in SortInputs(key), b \in SortInputs(key) :
             ApplySortFunc(key, a, b)
    \/ /\ pureOp = "init"
       /\ \E r \in RecordInputs : Normalize(r)

\* The comparators and the normaliser read no state of the component: they
\* are applied to drawn inputs from one state of it.
PureInit == Init /\ patient /\ showPrintButtonConfig /\ pageSize = 1

PureSpec == PureInit /\ [][PureNext]_vars

\* ================================================================ claims

\* C1: at most one print cycle is in flight; a print request (handlePrint)
\* issued while a cycle is awaiting-content or capturing is a no-op: it does
\* not overwrite the stored readiness signal, touch isPrinting or start a
\* capture.
C1_PrintCycleMutualExclusion ==
    [][(nPrints' > nPrints /\ InFlight) =>
          /\ onBeforeGetContentResolve' = onBeforeGetContentResolve
          /\ isPrinting' = isPrinting
          /\ captures' = captures]_vars

C3_EveryPrintCompletes ==
    \A p \in 1 .. MaxPrints :
        (promise[p] = "pending") ~> (promise[p] = "done" \/ ~mounted)

\* C4: a data refresh (a revalidation starting or ending, with or without
\* new data) leaves chartView and isPrinting as they were.
C4_RefreshKeepsViewState ==
    [][(isValidating' # isValidating \/ vitals' # vitals \/ tableRows' # tableRows) =>
          (chartView' = chartView /\ isPrinting' = isPrinting)]_vars

\* C4 witness: a revalidation is under way, after the first load, while the
\* chart view is selected and a print cycle has set isPrinting.
C4_RefreshedInChartWhilePrinting ==
    isValidating /\ chartView /\ isPrinting /\ Len(vitals) > 1

\* C5: tableRows is the element-wise image of the current record sequence:
\* same length, and row i is the normalised record i.
C5_RowsMirrorRecords ==
    /\ Len(tableRows) = Len(vitals)
    /\ \A i \in DOMAIN tableRows : tableRows[i] = NormalizeRecord(vitals[i])

\* C6: a single-value comparator returns a.f - b.f whenever f is present in
\* both rows (0 counts as present) and 0 when f is absent in one of them.
C6_SingleValueComparators ==
    sortKey \in SingleColumns =>
        cmp = (IF rowA[FieldOf(sortKey)] # Absent /\ rowB[FieldOf(sortKey)] # Absent
               THEN rowA[FieldOf(sortKey)] - rowB[FieldOf(sortKey)]
               ELSE 0)

\* C7: the blood-pressure comparator returns the systolic difference, or the
\* diastolic difference when the systolic values are equal, whenever all four
\* values are present, and 0 when one of them is absent.
C7_BloodPressureComparator ==
    sortKey = "bloodPressureRender" =>
        cmp = (IF /\ rowA.systolic # Absent /\ rowB.systolic # Absent
                  /\ rowA.diastolic # Absent /\ rowB.diastolic # Absent
               THEN IF rowA.systolic # rowB.systolic
                    THEN rowA.systolic - rowB.systolic
                    ELSE rowA.diastolic - rowB.diastolic
               ELSE 0)

\* C8: the document handed to the printer holds every normalised row,
\* whatever the page size and the current page, and handing it over does not
\* change the view mode; while a cycle is capturing, the mounted print
\* region shows every row.
C8_PrintSnapshotComplete ==
    /\ []((Capturing /\ ContentMounted) => Len(ContentToPrint) = Len(tableRows))
    /\ [][captures' > captures =>
             /\ snapshot' = tableRows
             /\ chartView' = chartView
             /\ currentPage' = currentPage]_vars

\* C8 witness: a document was just captured while the table showed a later
\* page and held more rows than one page.
C8_CapturedFromLaterPage ==
    /\ Capturing /\ captures > 0
    /\ currentPage > 1
    /\ Len(snapshot) > pageSize

\* C9: a numeric render is the raw value when the field is present (0
\* included) and "--" when it is absent; the blood-pressure render is
\* "<systolic> / <diastolic>", each side "--" on its own when absent.
C9_PlaceholderRender ==
    LET C9_Side(v) == IF v = Absent THEN "--" ELSE ToString(v)
    IN pureOp = "normalize" =>
        /\ normOut.temperatureRender = C9_Side(normIn.temperature)
        /\ normOut.pulseRender = C9_Side(normIn.pulse)
        /\ normOut.respiratoryRateRender = C9_Side(normIn.respiratoryRate)
        /\ normOut.spo2Render = C9_Side(normIn.spo2)
        /\ normOut.bloodPressureRender =
              C9_Side(normIn.systolic) \o " / " \o C9_Side(normIn.diastolic)
        /\ (normIn.temperature = 0 => normOut.temperatureRender = "0")
        /\ (normIn.systolic = 1 /\ normIn.diastolic = Absent
               => normOut.bloodPressureRender = "1 / --")

\* C9 witness: a record with a zero temperature, a systolic value and no
\* diastolic value was normalised.
C9_ZeroAndHalfPressure ==
    /\ pureOp = "normalize"
    /\ normIn.temperature = 0 /\ normOut.temperatureRender = "0"
    /\ normIn.pulse = Absent /\ normOut.pulseRender = "--"
    /\ normOut.bloodPressureRender = "1 / --"

\* C10: a print request is issued only in Table mode with showPrintButton
\* configured, and only the view toggle changes the mode: a step that
\* changes it happens on the mounted widget card and touches neither the
\* data nor the print cycle.
C10_PrintOnlyInTableMode ==
    [][/\ nPrints' > nPrints => (~chartView /\ showPrintButtonConfig)
       /\ chartView' # chartView =>
             (mounted /\ Visible /\ UNCHANGED <<isPrinting, vitals, tableRows, printVars>>)]_vars

\* C10 witness: a print request was issued after the view had been switched
\* to the chart and back to the table.
C10_PrintedInTableMode ==
    ~chartView /\ showPrintButtonConfig /\ nPrints > 0 /\ AwaitingContent

====
